---- MODULE Spec2Model ----
(***************************************************************************)
(* Model of cmd/ponzu/options.go: the project bootstrap                    *)
(* (newProjectInDir, createProjInDir, vendorCorePackages) and the build    *)
(* (buildPonzuServer) of the ponzu command line tool.                      *)
(*                                                                         *)
(* Strings are sequences of fragments (words, path components), so that    *)
(* "the message contains ..." is a test on the text the code builds.       *)
(* Files are byte sequences, directories are functions from names to       *)
(* files.  Every call that can fail (filesystem, subprocess) takes its     *)
(* outcome from the environment.                                           *)
(***************************************************************************)
EXTENDS Integers, Sequences, FiniteSets, TLC

\* Number of distinct contents a user may give to a file of ./content.
MaxByte == 2

----------------------------------------------------------------------------
\* Text helpers

\* unicode.ToLower on the letters the inputs are drawn from.
ToLowerChar(c) ==
    CASE c = "Y" -> "y"
      [] c = "E" -> "e"
      [] c = "S" -> "s"
      [] c = "N" -> "n"
      [] c = "O" -> "o"
      [] OTHER   -> c

\* strings.ToLower
ToLower(s) == [i \in 1..Len(s) |-> ToLowerChar(s[i])]

\* An error value: nil, or an error carrying its message.
Nil == [isErr |-> FALSE, msg |-> <<>>]
Err(m) == [isErr |-> TRUE, msg |-> m]

----------------------------------------------------------------------------
\* Paths and command lines of createProjInDir

gopath == "$GOPATH"
ponzuRepo == <<"github.com", "bosssauce", "ponzu">>

\* The project path as newProjectInDir resolves it.
projPath == <<gopath, "src", "myproject">>

\* Values of the fork flag: unset, or a fork's path under $GOPATH/src.
Forks == {<<>>, <<"github.com", "someone", "ponzu">>}

\* Variant: the fork is used whether or not this is a dev build.
localForkAlways(d, f) ==
    IF f # <<>> THEN <<gopath, "src">> \o f
                ELSE <<gopath, "src">> \o ponzuRepo

\* The local clone source: the canonical path, or the fork in a dev build.
local(d, f) ==
    IF d /\ f # <<>> THEN <<gopath, "src">> \o f
                     ELSE <<gopath, "src">> \o ponzuRepo

network == <<"https://">> \o ponzuRepo \o <<".git">>

devCloneArgs(d, f) ==
    <<"git", "clone">> \o local(d, f)
        \o <<"--branch", "ponzu-dev", "--single-branch">> \o projPath

localCloneArgs(d, f) == <<"git", "clone">> \o local(d, f) \o projPath

networkCloneArgs == <<"git", "clone">> \o network \o projPath

\* Variant: the filesystem error is returned without the path.
overwriteErrorBare(e) == Err(<<e>>)

\* fmt.Errorf of the failed overwrite.
overwriteError(e) ==
    Err(<<"Failed", "to", "overwrite">> \o projPath \o <<".", "\n", e>>)

\* Variant: the message leaves out the local path.
cloneErrorNoLocal(d, f, e) ==
    Err(<<"Failed", "to", "clone", "files", "over", "the", "network", "[">>
        \o network \o <<"]", ".", "\n", e>>)

\* fmt.Errorf after the network clone exited non-zero.
cloneError(d, f, e) ==
    Err(<<"Failed", "to", "clone", "files", "from", "local", "machine", "[">>
        \o local(d, f)
        \o <<"]", "and", "over", "the", "network", "[">>
        \o network \o <<"]", ".", "\n", e>>)

----------------------------------------------------------------------------
\* The filesystem

EmptyDir == [n \in {} |-> <<>>]

\* dir without the entry name
Without(dir, name) == [n \in (DOMAIN dir) \ {name} |-> dir[n]]

\* dir with the entry name set to v
With(dir, name, v) == [n \in (DOMAIN dir) \cup {name} |-> IF n = name THEN v ELSE dir[n]]

\* The tree a clone of the ponzu repository leaves at the project path.
RepoTree ==
    [content    |-> ("item.go" :> <<0>>) @@ ("types.go" :> <<0, 0>>),
     management |-> ("editor.go" :> <<0>>),
     system     |-> ("server.go" :> <<0, 0>>)]

\* Nothing at the project path.
NoProject ==
    [exists |-> FALSE, top |-> EmptyDir, git |-> FALSE,
     hasVendor |-> FALSE, vendor |-> EmptyDir]

\* os.MkdirAll(path): an empty directory unless something is there already.
MkdirAllPath(fs) ==
    IF fs.exists THEN fs ELSE [NoProject EXCEPT !.exists = TRUE]

\* A successful git clone into the (empty) project directory.
Cloned(fs) == [fs EXCEPT !.top = RepoTree, !.git = TRUE]

\* os.MkdirAll(vendorPath)
MkdirAllVendor(fs) == [fs EXCEPT !.hasVendor = TRUE]

\* os.Rename(path/dir, vendorPath/dir) can succeed only if the source exists.
CanRename(fs, dir) == dir \in DOMAIN fs.top /\ fs.hasVendor

\* Variant: every subtree is moved to the same destination name.
RenameToContent(fs, dir) ==
    [fs EXCEPT !.top = Without(fs.top, dir),
               !.vendor = With(fs.vendor, "content", fs.top[dir])]

Rename(fs, dir) ==
    [fs EXCEPT !.top = Without(fs.top, dir),
               !.vendor = With(fs.vendor, dir, fs.top[dir])]

\* os.Mkdir(contentPath) can succeed only if nothing has that name.
CanMkdir(fs, dir) == fs.exists /\ dir \notin DOMAIN fs.top

\* Variant: the new directory starts as a copy of the vendored one.
MkdirFromVendor(fs, dir) == [fs EXCEPT !.top = With(fs.top, dir, fs.vendor[dir])]

Mkdir(fs, dir) == [fs EXCEPT !.top = With(fs.top, dir, EmptyDir)]

\* os.RemoveAll(gitDir)
RemoveGitDir(fs) == [fs EXCEPT !.git = FALSE]

\* The manifest of vendorCorePackages.
dirs == <<"content", "management", "system">>

----------------------------------------------------------------------------
\* newProjectInDir: the confirmation prompt

Newline == "\n"

\* What the user may type at the prompt (the bytes on stdin).
StdinInputs ==
    { <<"y", Newline>>, <<"Y", Newline>>,
      <<"y", "e", "s", Newline>>, <<"Y", "e", "S", Newline>>,
      <<"n", Newline>>, <<"n", "o", Newline>>, <<"N", "O", Newline>>,
      <<Newline>>,
      <<"m", Newline>>,
      <<"y", " ", "e", "s", Newline>>,
      <<>> }

IsSpace(c) == c \in {" ", Newline}

\* Length of the leading run of non-space characters.
RECURSIVE TokenLen(_)
TokenLen(in) ==
    IF in = <<>> \/ IsSpace(Head(in)) THEN 0 ELSE 1 + TokenLen(Tail(in))

\* fmt.Scanf("%s\n", &answer): the token read and the error returned.
Scanf(in) ==
    LET n == TokenLen(in) IN
    IF in = <<>> THEN [answer |-> <<>>, err |-> "unexpected EOF"]
    ELSE IF Head(in) = Newline THEN [answer |-> <<>>, err |-> "unexpected newline"]
    ELSE IF n < Len(in) /\ in[n + 1] = Newline
         THEN [answer |-> SubSeq(in, 1, n), err |-> ""]
    ELSE [answer |-> SubSeq(in, 1, n), err |-> "newline in format does not match input"]

\* Variant: the empty answer counts as yes.
DecisionEmptyYes(a) ==
    CASE a \in {<<"n">>, <<"n", "o">>, <<"\r", Newline>>, <<Newline>>} -> "no"
      [] a \in {<<"y">>, <<"y", "e", "s">>, <<>>} -> "yes"
      [] OTHER -> "unrecognized"

\* Variant: the default case overwrites.
DecisionDefaultYes(a) ==
    IF a \in {<<"n">>, <<"n", "o">>, <<"\r", Newline>>, <<Newline>>, <<>>}
    THEN "no" ELSE "yes"

\* The switch over the lower-cased answer.
Decision(a) ==
    CASE a \in {<<"n">>, <<"n", "o">>, <<"\r", Newline>>, <<Newline>>, <<>>} -> "no"
      [] a \in {<<"y">>, <<"y", "e", "s">>} -> "yes"
      [] OTHER -> "unrecognized"

----------------------------------------------------------------------------
\* State

VARIABLES
    fs,               \* the project path: its tree, .git and vendor directory
    pc,               \* position of the running command
    cmd,              \* the command running or last run: "new" or "build"
    dev, fork,        \* the flags of the command line
    result,           \* the error the command returned
    log,              \* filesystem and subprocess calls of this invocation
    answer,           \* the answer Scanf read at the overwrite prompt
    scanErr,          \* the error Scanf returned, "" for none
    k,                \* vendorCorePackages: index into dirs
    preVendor,        \* the project root as vendorCorePackages found it
    srcFiles,         \* buildPonzuServer: the entries ReadDir returned
    i,                \* buildPonzuServer: index into srcFiles
    mustRenameFiles,  \* buildPonzuServer: the conflict list
    dstBefore,        \* the vendored content directory as the build found it
    prevDst           \* <<the vendored content directory>> as the last build
                      \* that went on to compile left it, if ./content is
                      \* as it was then; else <<>>

vars == <<fs, pc, cmd, dev, fork, result, log, answer, scanErr, k, preVendor,
          srcFiles, i, mustRenameFiles, dstBefore, prevDst>>

newVars == <<answer, scanErr, k, preVendor>>
buildVars == <<srcFiles, i, mustRenameFiles, dstBefore>>

Init ==
    /\ fs = NoProject
    /\ pc = "idle"
    /\ cmd = "none"
    /\ dev = FALSE
    /\ fork = <<>>
    /\ result = Nil
    /\ log = <<>>
    /\ answer = <<>>
    /\ scanErr = ""
    /\ k = 1
    /\ preVendor = EmptyDir
    /\ srcFiles = <<>>
    /\ i = 1
    /\ mustRenameFiles = <<>>
    /\ dstBefore = EmptyDir
    /\ prevDst = <<>>

\* No command is running.
Ready == pc \in {"idle", "done"}

Event(ev, args, res) == [ev |-> ev, args |-> args, res |-> res]

\* The command returns e.
Return(e) == pc' = "done" /\ result' = e

\* The last call of the log gets its outcome.
Settle(l, res) == [l EXCEPT ![Len(l)].res = res]

----------------------------------------------------------------------------
\* newProjectInDir

\* os.Stat(path): prompt if something is there, else create the project.
NewProjectInDir(d, f) ==
    /\ Ready
    /\ cmd' = "new"
    /\ dev' = d
    /\ fork' = f
    /\ result' = Nil
    /\ log' = <<>>
    /\ answer' = <<>>
    /\ scanErr' = ""
    /\ k' = 1
    /\ preVendor' = EmptyDir
    /\ pc' = IF fs.exists THEN "prompt" ELSE "mkdir"
    /\ srcFiles' = <<>>
    /\ i' = 1
    /\ mustRenameFiles' = <<>>
    /\ dstBefore' = EmptyDir
    /\ prevDst' = <<>>
    /\ UNCHANGED fs

\* The answer the switch sees: "unexpected newline" reads as the empty answer.
ScannedAnswer(in) ==
    IF Scanf(in).err = "unexpected newline" THEN <<>> ELSE Scanf(in).answer

\* Scanf, ToLower, the switch and os.RemoveAll.
ConfirmOverwrite(in, rmOk) ==
    /\ pc = "prompt"
    /\ scanErr' = Scanf(in).err
    /\ IF Scanf(in).err \notin {"", "unexpected newline"}
       THEN /\ Return(Err(<<Scanf(in).err>>))
            /\ UNCHANGED <<fs, log, answer>>
       ELSE /\ answer' = ScannedAnswer(in)
            /\ IF Decision(ToLower(answer')) = "yes"
               THEN IF rmOk
                    THEN /\ fs' = NoProject
                         /\ log' = Append(log, Event("RemoveAll", projPath, "ok"))
                         /\ pc' = "mkdir"
                         /\ UNCHANGED result
                    ELSE /\ log' = Append(log, Event("RemoveAll", projPath, "fail"))
                         /\ Return(overwriteError("permission denied"))
                         /\ UNCHANGED fs
               ELSE /\ Return(Nil)
                    /\ UNCHANGED <<fs, log>>
    /\ UNCHANGED <<cmd, dev, fork, k, preVendor>>
    /\ UNCHANGED <<buildVars, prevDst>>

----------------------------------------------------------------------------
\* createProjInDir

\* os.MkdirAll(path)
CreateProjInDir(ok) ==
    /\ pc = "mkdir"
    /\ IF ok
       THEN /\ fs' = MkdirAllPath(fs)
            /\ log' = Append(log, Event("MkdirAll", projPath, "ok"))
            /\ pc' = IF dev THEN "devStart" ELSE "localStart"
            /\ UNCHANGED result
       ELSE /\ log' = Append(log, Event("MkdirAll", projPath, "fail"))
            /\ Return(Err(<<"mkdir: permission denied">>))
            /\ UNCHANGED fs
    /\ UNCHANGED <<cmd, dev, fork>>
    /\ UNCHANGED newVars
    /\ UNCHANGED <<buildVars, prevDst>>

\* Variant: a failed dev clone falls back to the network.
AfterDevWaitFallback(ok) == IF ok THEN "vendor" ELSE "networkStart"

\* Variant: the network clone runs whatever the local clone did.
AfterLocalWaitAlwaysNetwork(ok) == "networkStart"

\* Variant: no retry over the network.
AfterLocalWaitNoRetry(ok) == "vendor"

\* Where createProjInDir goes after devClone.Wait().
AfterDevWait(ok) == IF ok THEN "vendor" ELSE "return"

\* Where createProjInDir goes after localClone.Start().
AfterLocalStart(ok) == IF ok THEN "localWait" ELSE "return"

\* Where createProjInDir goes after localClone.Wait().
AfterLocalWait(ok) == IF ok THEN "vendor" ELSE "networkStart"

\* Variant: vendoring runs whatever the network clone did.
AfterNetworkWaitAlwaysVendor(ok) == "vendor"

\* Where createProjInDir goes after networkClone.Wait().
AfterNetworkWait(ok) == IF ok THEN "vendor" ELSE "return"

\* devClone.Start()
DevCloneStart(ok) ==
    /\ pc = "devStart"
    /\ IF ok
       THEN /\ log' = Append(log, Event("devClone", devCloneArgs(dev, fork), "started"))
            /\ pc' = "devWait"
            /\ UNCHANGED result
       ELSE /\ log' = Append(log, Event("devClone", devCloneArgs(dev, fork), "nostart"))
            /\ Return(Err(<<"exec: git: not found">>))
    /\ UNCHANGED <<fs, cmd, dev, fork>>
    /\ UNCHANGED newVars
    /\ UNCHANGED <<buildVars, prevDst>>

\* devClone.Wait()
DevCloneWait(ok) ==
    /\ pc = "devWait"
    /\ log' = Settle(log, IF ok THEN "ok" ELSE "exit")
    /\ fs' = IF ok THEN Cloned(fs) ELSE fs
    /\ IF AfterDevWait(ok) = "return"
       THEN Return(Err(<<"exit status 128">>))
       ELSE pc' = AfterDevWait(ok) /\ UNCHANGED result
    /\ UNCHANGED <<cmd, dev, fork>>
    /\ UNCHANGED newVars
    /\ UNCHANGED <<buildVars, prevDst>>

\* localClone.Start()
LocalCloneStart(ok) ==
    /\ pc = "localStart"
    /\ log' = Append(log, Event("localClone", localCloneArgs(dev, fork),
                                IF ok THEN "started" ELSE "nostart"))
    /\ IF AfterLocalStart(ok) = "return"
       THEN Return(Err(<<"exec: git: not found">>))
       ELSE pc' = AfterLocalStart(ok) /\ UNCHANGED result
    /\ UNCHANGED <<fs, cmd, dev, fork>>
    /\ UNCHANGED newVars
    /\ UNCHANGED <<buildVars, prevDst>>

\* localClone.Wait()
LocalCloneWait(ok) ==
    /\ pc = "localWait"
    /\ log' = Settle(log, IF ok THEN "ok" ELSE "exit")
    /\ fs' = IF ok THEN Cloned(fs) ELSE fs
    /\ pc' = AfterLocalWait(ok)
    /\ UNCHANGED <<cmd, dev, fork, result>>
    /\ UNCHANGED newVars
    /\ UNCHANGED <<buildVars, prevDst>>

\* What createProjInDir returns when networkClone.Start() fails.
networkStartError(d, f, e) == Err(<<e>>)

\* networkClone.Start()
NetworkCloneStart(ok) ==
    /\ pc = "networkStart"
    /\ IF ok
       THEN /\ log' = Append(log, Event("networkClone", networkCloneArgs, "started"))
            /\ pc' = "networkWait"
            /\ UNCHANGED result
       ELSE /\ log' = Append(log, Event("networkClone", networkCloneArgs, "nostart"))
            /\ Return(networkStartError(dev, fork, "exec: git: not found"))
    /\ UNCHANGED <<fs, cmd, dev, fork>>
    /\ UNCHANGED newVars
    /\ UNCHANGED <<buildVars, prevDst>>

\* networkClone.Wait()
NetworkCloneWait(ok) ==
    /\ pc = "networkWait"
    /\ log' = Settle(log, IF ok THEN "ok" ELSE "exit")
    /\ fs' = IF ok THEN Cloned(fs) ELSE fs
    /\ IF AfterNetworkWait(ok) = "return"
       THEN Return(cloneError(dev, fork, "exit status 128"))
       ELSE pc' = AfterNetworkWait(ok) /\ UNCHANGED result
    /\ UNCHANGED <<cmd, dev, fork>>
    /\ UNCHANGED newVars
    /\ UNCHANGED <<buildVars, prevDst>>

----------------------------------------------------------------------------
\* vendorCorePackages

\* Variant: the non-dev branch returns without removing .git.
AfterVendorReturn(d) == "return"

\* What follows vendorCorePackages returning nil, in the dev and the
\* non-dev branch of createProjInDir.
AfterVendor(d) == IF d THEN "return" ELSE "removeGit"

\* os.MkdirAll(vendorPath)
VendorMkdirAll(ok) ==
    /\ pc = "vendor"
    /\ preVendor' = fs.top
    /\ k' = 1
    /\ IF ok
       THEN /\ fs' = MkdirAllVendor(fs)
            /\ log' = Append(log, Event("vendor", projPath, "started"))
            /\ pc' = "rename"
            /\ UNCHANGED result
       ELSE /\ log' = Append(log, Event("vendor", projPath, "fail"))
            /\ Return(Err(<<"mkdir: permission denied">>))
            /\ UNCHANGED fs
    /\ UNCHANGED <<cmd, dev, fork, answer, scanErr>>
    /\ UNCHANGED <<buildVars, prevDst>>

\* Variant: a failed rename is skipped and the loop goes on.
VendorRenameContinue(ok) ==
    /\ pc = "rename"
    /\ k <= Len(dirs)
    /\ fs' = IF ok /\ CanRename(fs, dirs[k]) THEN Rename(fs, dirs[k]) ELSE fs
    /\ k' = k + 1
    /\ UNCHANGED <<pc, result, log>>
    /\ UNCHANGED <<cmd, dev, fork, answer, scanErr, preVendor>>
    /\ UNCHANGED <<buildVars, prevDst>>

\* One turn of the loop over dirs: os.Rename(path/dir, vendorPath/dir).
VendorRename(ok) ==
    /\ pc = "rename"
    /\ k <= Len(dirs)
    /\ IF ok /\ CanRename(fs, dirs[k])
       THEN /\ fs' = Rename(fs, dirs[k])
            /\ k' = k + 1
            /\ UNCHANGED <<pc, result, log>>
       ELSE /\ log' = Settle(log, "fail")
            /\ Return(Err(<<"rename: no such file or directory">>))
            /\ UNCHANGED <<fs, k>>
    /\ UNCHANGED <<cmd, dev, fork, answer, scanErr, preVendor>>
    /\ UNCHANGED <<buildVars, prevDst>>

\* os.Mkdir(contentPath), after the loop
VendorMkdir(ok) ==
    /\ pc = "rename"
    /\ k > Len(dirs)
    /\ IF ok /\ CanMkdir(fs, "content")
       THEN /\ fs' = Mkdir(fs, "content")
            /\ log' = Settle(log, "ok")
            /\ IF AfterVendor(dev) = "return"
               THEN Return(Nil)
               ELSE pc' = AfterVendor(dev) /\ UNCHANGED result
       ELSE /\ log' = Settle(log, "fail")
            /\ Return(Err(<<"mkdir: file exists">>))
            /\ UNCHANGED fs
    /\ UNCHANGED <<cmd, dev, fork>>
    /\ UNCHANGED newVars
    /\ UNCHANGED <<buildVars, prevDst>>

\* os.RemoveAll(gitDir): a failure is only printed.
RemoveGit(ok) ==
    /\ pc = "removeGit"
    /\ fs' = IF ok THEN RemoveGitDir(fs) ELSE fs
    /\ log' = Append(log, Event("RemoveAll", projPath \o <<".git">>,
                                IF ok THEN "ok" ELSE "fail"))
    /\ Return(Nil)
    /\ UNCHANGED <<cmd, dev, fork>>
    /\ UNCHANGED newVars
    /\ UNCHANGED <<buildVars, prevDst>>

----------------------------------------------------------------------------
\* buildPonzuServer

\* The names a content directory may hold, in the order ReadDir lists them.
FileNames == <<"foo.txt", "item.go", "types.go">>

conflictFiles == <<"item.go", "types.go">>

\* What a user may write into a file of ./content.
UserBytes == {<<b>> : b \in 1..MaxByte}

\* contentSrcPath and contentDstPath
HasSrcDir(f) == f.exists /\ "content" \in DOMAIN f.top
srcDir(f) == f.top["content"]
HasDstDir(f) == f.hasVendor /\ "content" \in DOMAIN f.vendor
dstDir(f) == f.vendor["content"]

\* ioutil.ReadDir: the entries, sorted by name.
ReadDir(dir) == SelectSeq(FileNames, LAMBDA n : n \in DOMAIN dir)

\* Variant: the file is written under contentSrcPath.
WriteSrc(f, name, bytes) ==
    [f EXCEPT !.top = With(f.top, "content", With(f.top["content"], name, bytes))]

\* The file name of contentDstPath holds bytes.
WriteDst(f, name, bytes) ==
    [f EXCEPT !.vendor = With(f.vendor, "content", With(dstDir(f), name, bytes))]

\* Variant: an existing file is opened without truncating it.
CreateKeep(f, name) ==
    IF name \in DOMAIN f.vendor["content"] THEN f
    ELSE [f EXCEPT !.vendor = With(f.vendor, "content",
                                   With(f.vendor["content"], name, <<>>))]

\* os.Create: the file exists and is empty.
Create(f, name) == WriteDst(f, name, <<>>)

\* io.Copy(dstFile, srcFile), stopping after n bytes: what is read from the
\* source is written after what the destination file holds.
Copy(f, name, n) ==
    WriteDst(f, name, dstDir(f)[name] \o SubSeq(srcDir(f)[name], 1, n))

\* Variant: only the first name of conflictFiles is looked for.
ConflictsFirstOnly(name) == IF name = conflictFiles[1] THEN <<name>> ELSE <<>>

\* The inner loop over conflictFiles: the names it appends for one entry.
\* (Its continue continues this inner loop, so the entry is copied anyway.)
Conflicts(name) == SelectSeq(conflictFiles, LAMBDA c : name = c)

\* The test that decides whether the build stops with the conflict report.
HasConflicts(m) == Len(m) > 1

conflictError ==
    Err(<<"Ponzu", "has", "very", "few", "internal", "conflicts", ",",
          "sorry", "for", "the", "inconvenience", ".">>)

\* Variant: the toolchain's error is returned as it is.
buildErrorRaw(e) == Err(<<e>>)

\* The error of a failed build.Start() or build.Wait().
buildError(e) ==
    Err(<<"Ponzu", "build", "step", "failed", ".", "Please", "try", "again",
          ".", " ", "\n", e>>)

\* os.Getwd and ioutil.ReadDir(contentSrcPath)
BuildPonzuServer(ok) ==
    /\ Ready
    /\ cmd' = "build"
    /\ log' = <<>>
    /\ answer' = <<>>
    /\ scanErr' = ""
    /\ k' = 1
    /\ preVendor' = EmptyDir
    /\ i' = 1
    /\ mustRenameFiles' = <<>>
    /\ dstBefore' = IF HasDstDir(fs) THEN dstDir(fs) ELSE EmptyDir
    /\ IF ok /\ HasSrcDir(fs)
       THEN /\ srcFiles' = ReadDir(srcDir(fs))
            /\ pc' = "copy"
            /\ result' = Nil
       ELSE /\ srcFiles' = <<>>
            /\ Return(Err(<<"open content: no such file or directory">>))
    /\ dev' = FALSE
    /\ fork' = <<>>
    /\ UNCHANGED <<fs, prevDst>>

\* One turn of the loop over srcFiles.  outcome is what the filesystem does:
\* "ok", or the call that fails; written is how far a failing io.Copy got.
CopyEntry(outcome, written) ==
    /\ pc = "copy"
    /\ i <= Len(srcFiles)
    /\ LET name == srcFiles[i] IN
       /\ mustRenameFiles' = mustRenameFiles \o Conflicts(name)
       /\ IF outcome = "createFail" \/ ~HasDstDir(fs)
          THEN /\ written = 0
               /\ Return(Err(<<"open: permission denied">>))
               /\ UNCHANGED <<fs, i>>
          ELSE IF outcome = "openFail"
          THEN /\ written = 0
               /\ fs' = Create(fs, name)
               /\ Return(Err(<<"open: permission denied">>))
               /\ UNCHANGED i
          ELSE IF outcome = "copyFail"
          THEN /\ written < Len(srcDir(fs)[name])
               /\ fs' = Copy(Create(fs, name), name, written)
               /\ Return(Err(<<"write: no space left on device">>))
               /\ UNCHANGED i
          ELSE /\ written = Len(srcDir(fs)[name])
               /\ fs' = Copy(Create(fs, name), name, written)
               /\ i' = i + 1
               /\ UNCHANGED <<pc, result>>
    /\ UNCHANGED <<cmd, dev, fork, log, srcFiles, dstBefore, prevDst>>
    /\ UNCHANGED newVars

\* After the loop: stop with the conflict report, or go on to go build.
CheckConflicts ==
    /\ pc = "copy"
    /\ i > Len(srcFiles)
    /\ IF HasConflicts(mustRenameFiles)
       THEN Return(conflictError) /\ UNCHANGED prevDst
       ELSE /\ pc' = "buildStart"
            /\ prevDst' = IF HasDstDir(fs) THEN <<dstDir(fs)>> ELSE <<>>
            /\ UNCHANGED result
    /\ UNCHANGED <<fs, cmd, dev, fork, log>>
    /\ UNCHANGED newVars
    /\ UNCHANGED buildVars

\* build.Start()
BuildStart(ok) ==
    /\ pc = "buildStart"
    /\ IF ok
       THEN /\ log' = Append(log, Event("build", <<"go", "build">>, "started"))
            /\ pc' = "buildWait"
            /\ UNCHANGED result
       ELSE /\ log' = Append(log, Event("build", <<"go", "build">>, "nostart"))
            /\ Return(buildError("exec: go: not found"))
    /\ UNCHANGED <<fs, cmd, dev, fork>>
    /\ UNCHANGED newVars
    /\ UNCHANGED <<buildVars, prevDst>>

\* build.Wait()
BuildWait(ok) ==
    /\ pc = "buildWait"
    /\ log' = Settle(log, IF ok THEN "ok" ELSE "exit")
    /\ Return(IF ok THEN Nil ELSE buildError("exit status 2"))
    /\ UNCHANGED <<fs, cmd, dev, fork>>
    /\ UNCHANGED newVars
    /\ UNCHANGED <<buildVars, prevDst>>

----------------------------------------------------------------------------
\* The user, between commands: writes or removes a file of ./content.
\* The shell is back at its prompt; nothing of the last command is kept.

AtPrompt ==
    /\ pc' = "idle"
    /\ cmd' = "none"
    /\ dev' = FALSE
    /\ fork' = <<>>
    /\ result' = Nil
    /\ log' = <<>>
    /\ answer' = <<>>
    /\ scanErr' = ""
    /\ k' = 1
    /\ preVendor' = EmptyDir
    /\ srcFiles' = <<>>
    /\ i' = 1
    /\ mustRenameFiles' = <<>>
    /\ dstBefore' = EmptyDir
    /\ prevDst' = <<>>

WriteContent(name, bytes) ==
    /\ Ready
    /\ HasSrcDir(fs)
    /\ fs' = [fs EXCEPT !.top = With(fs.top, "content", With(srcDir(fs), name, bytes))]
    /\ AtPrompt

RemoveContent(name) ==
    /\ Ready
    /\ HasSrcDir(fs)
    /\ name \in DOMAIN srcDir(fs)
    /\ fs' = [fs EXCEPT !.top = With(fs.top, "content", Without(srcDir(fs), name))]
    /\ AtPrompt

----------------------------------------------------------------------------
\* Specification

CopyOutcomes == {"ok", "createFail", "openFail", "copyFail"}

Next ==
    \/ \E d \in BOOLEAN, f \in Forks : NewProjectInDir(d, f)
    \/ \E in \in StdinInputs, rmOk \in BOOLEAN : ConfirmOverwrite(in, rmOk)
    \/ \E ok \in BOOLEAN : CreateProjInDir(ok)
    \/ \E ok \in BOOLEAN : DevCloneStart(ok)
    \/ \E ok \in BOOLEAN : DevCloneWait(ok)
    \/ \E ok \in BOOLEAN : LocalCloneStart(ok)
    \/ \E ok \in BOOLEAN : LocalCloneWait(ok)
    \/ \E ok \in BOOLEAN : NetworkCloneStart(ok)
    \/ \E ok \in BOOLEAN : NetworkCloneWait(ok)
    \/ \E ok \in BOOLEAN : VendorMkdirAll(ok)
    \/ \E ok \in BOOLEAN : VendorRename(ok)
    \/ \E ok \in BOOLEAN : VendorMkdir(ok)
    \/ \E ok \in BOOLEAN : RemoveGit(ok)
    \/ \E ok \in BOOLEAN : BuildPonzuServer(ok)
    \/ \E o \in CopyOutcomes, n \in 0..2 : CopyEntry(o, n)
    \/ CheckConflicts
    \/ \E ok \in BOOLEAN : BuildStart(ok)
    \/ \E ok \in BOOLEAN : BuildWait(ok)
    \/ \E n \in 1..Len(FileNames), b \in UserBytes : WriteContent(FileNames[n], b)
    \/ \E n \in 1..Len(FileNames) : RemoveContent(FileNames[n])

Spec == Init /\ [][Next]_vars

----------------------------------------------------------------------------
\* Properties

\* sub occurs in s as a contiguous run of fragments.
Contains(s, sub) ==
    \E x \in 0..(Len(s) - Len(sub)) :
        \A y \in 1..Len(sub) : s[x + y] = sub[y]

ProtectedFileSet == {"item.go", "types.go"}
VendorManifest == {"content", "management", "system"}

\* Indices of the calls of one kind in this invocation's log.
Calls(ev) == {j \in DOMAIN log : log[j].ev = ev}
Failed(j) == log[j].res \in {"nostart", "exit"}

\* The file name of a directory, if there is one.
FileOf(dir, name) == IF name \in DOMAIN dir THEN <<dir[name]>> ELSE <<>>

CurrentDst == IF HasDstDir(fs) THEN dstDir(fs) ELSE EmptyDir

Range(q) == {q[j] : j \in DOMAIN q}

NonDevBootstrap == cmd = "new" /\ ~dev
DevBootstrap == cmd = "new" /\ dev

CanonicalLocal == <<"$GOPATH", "src", "github.com", "bosssauce", "ponzu">>
NetworkURL == <<"https://", "github.com", "bosssauce", "ponzu", ".git">>

\* C1: during a build, every protected-name entry of ./content leaves the
\* vendored file of that name as the build found it, and once the entry has
\* been processed its name is in the conflict list.
C1_ProtectedNeverCopied ==
    cmd = "build" =>
        \A j \in DOMAIN srcFiles :
            srcFiles[j] \in ProtectedFileSet =>
                /\ FileOf(CurrentDst, srcFiles[j]) = FileOf(dstBefore, srcFiles[j])
                /\ j < i => srcFiles[j] \in Range(mustRenameFiles)

\* C2: the compiler is started only when ./content holds no protected-name
\* file, and a build whose loop over the entries ran to its end with at least
\* one protected-name file returns the conflict error.
C2_AnyConflictBlocksCompile ==
    cmd = "build" =>
        /\ Calls("build") # {} => Range(srcFiles) \cap ProtectedFileSet = {}
        /\ (pc = "done" /\ i > Len(srcFiles)
                /\ Range(srcFiles) \cap ProtectedFileSet # {})
              => result = conflictError

\* C3: in a non-dev bootstrap the network clone is attempted at most once and
\* only after a local clone attempt that failed; and when the local clone
\* failed and the network clone succeeded, vendoring is reached and the
\* command returns no clone error (nil once vendoring has succeeded).
C3_NetworkOnlyAfterLocalFailed ==
    NonDevBootstrap =>
        /\ Cardinality(Calls("networkClone")) <= 1
        /\ \A n \in Calls("networkClone") :
               \E l \in Calls("localClone") : l < n /\ Failed(l)
        /\ (\E n \in Calls("networkClone") : log[n].res = "ok") =>
               /\ pc = "vendor" \/ Calls("vendor") # {}
               /\ ~Contains(result.msg, <<"clone">>)
               /\ result.msg \notin {<<"exec: git: not found">>, <<"exit status 128">>}
               /\ (pc = "done" /\ \E v \in Calls("vendor") : log[v].res = "ok")
                     => result = Nil

C3_Witness ==
    /\ NonDevBootstrap
    /\ pc = "done"
    /\ result = Nil
    /\ \E l \in Calls("localClone") : log[l].res = "exit"
    /\ \E n \in Calls("networkClone") : log[n].res = "ok"

\* C4 as claimed: whenever the local and the network clone attempt both
\* failed, in either way, the error returned names the local path and the
\* network URL.
C4_BothFailNamesBoth ==
    (NonDevBootstrap /\ pc = "done"
        /\ (\E l \in Calls("localClone") : Failed(l))
        /\ (\E n \in Calls("networkClone") : Failed(n)))
      => /\ result.isErr
         /\ Contains(result.msg, CanonicalLocal)
         /\ Contains(result.msg, NetworkURL)

\* C4 as amended: when the local and the network clone both exited non-zero,
\* the one error returned names the local path and the network URL; when the
\* network clone could not be started, the error returned is the start error
\* alone.
C4_BothExitNamesBoth ==
    (NonDevBootstrap /\ pc = "done") =>
        /\ ((\E l \in Calls("localClone") : log[l].res = "exit")
              /\ (\E n \in Calls("networkClone") : log[n].res = "exit"))
             => /\ result.isErr
                /\ Contains(result.msg, CanonicalLocal)
                /\ Contains(result.msg, NetworkURL)
        /\ (\E n \in Calls("networkClone") : log[n].res = "nostart")
             => result = Err(<<"exec: git: not found">>)

C4_Witness ==
    /\ NonDevBootstrap
    /\ pc = "done"
    /\ \E l \in Calls("localClone") : log[l].res = "exit"
    /\ \E n \in Calls("networkClone") : log[n].res = "exit"
    /\ result.isErr

\* C5 as claimed: a local clone that failed, by a non-zero exit or by not
\* starting, is followed by exactly one network clone attempt.
C5_RetryInBothModes ==
    (NonDevBootstrap /\ pc # "networkStart"
        /\ \E l \in Calls("localClone") : Failed(l))
      => Cardinality(Calls("networkClone")) = 1

\* C5 as amended: a local clone that exited non-zero is followed by exactly
\* one network clone attempt; a local clone that could not be started is
\* followed by none, and its error is returned.
C5_RetryAfterNonZeroExit ==
    NonDevBootstrap =>
        /\ (pc # "networkStart" /\ \E l \in Calls("localClone") : log[l].res = "exit")
             => Cardinality(Calls("networkClone")) = 1
        /\ (\E l \in Calls("localClone") : log[l].res = "nostart")
             => /\ Calls("networkClone") = {}
                /\ pc = "done"
                /\ result = Err(<<"exec: git: not found">>)

C5_Witness ==
    /\ NonDevBootstrap
    /\ \E l \in Calls("localClone") : log[l].res = "exit"
    /\ \E n \in Calls("networkClone") : log[n].res = "started"

\* C6: a dev bootstrap that reaches its clone makes exactly one attempt, with
\* --branch ponzu-dev --single-branch from the canonical path or the fork;
\* if it fails the command has returned an error, and neither a network
\* clone nor vendoring is ever run.
C6_DevSingleAttempt ==
    DevBootstrap =>
        /\ Calls("localClone") = {} /\ Calls("networkClone") = {}
        /\ Cardinality(Calls("devClone")) <= 1
        /\ (pc \notin {"prompt", "mkdir", "devStart"}
              /\ \E m \in Calls("MkdirAll") : log[m].res = "ok")
             => Cardinality(Calls("devClone")) = 1
        /\ \A c \in Calls("devClone") :
             /\ log[c].args =
                   <<"git", "clone">>
                   \o (IF fork = <<>> THEN CanonicalLocal ELSE <<"$GOPATH", "src">> \o fork)
                   \o <<"--branch", "ponzu-dev", "--single-branch">> \o projPath
             /\ Failed(c) => /\ pc = "done"
                             /\ result.isErr
                             /\ Calls("vendor") = {}
                             /\ ~fs.hasVendor

C6_Witness ==
    /\ DevBootstrap
    /\ pc = "done"
    /\ \E c \in Calls("devClone") : log[c].res = "exit"

\* C7: at the overwrite prompt the path is destroyed (or the bootstrap goes
\* on) only if the lower-cased answer is "y" or "yes"; after the answers
\* "n", "no" and the empty answer (a bare newline) the command has ended and
\* the tree is as it was.
C7_OverwriteOnlyOnYes ==
    [][pc = "prompt" =>
         /\ (fs' # fs \/ pc' # "done" \/ log' # log)
              => ToLower(answer') \in {<<"y">>, <<"y", "e", "s">>}
         /\ ToLower(answer') \in {<<"n">>, <<"n", "o">>, <<>>}
              => fs' = fs /\ pc' = "done" /\ log' = log]_vars

C7_Witness ==
    /\ cmd = "new"
    /\ answer = <<"Y", "e", "S">>
    /\ \E r \in Calls("RemoveAll") : log[r].args = projPath /\ log[r].res = "ok"
    /\ ~fs.exists

VendorSucceeded ==
    cmd = "new" /\ \E v \in Calls("vendor") : log[v].res = "ok"

\* C8 as claimed: after a successful vendorCorePackages no manifest name is
\* at the top level of the project and each is in the vendor path with the
\* contents it had.
C8_NoManifestNameAtRoot ==
    VendorSucceeded =>
        \A d \in VendorManifest :
            /\ d \notin DOMAIN fs.top
            /\ d \in DOMAIN fs.vendor
            /\ d \in DOMAIN preVendor
            /\ fs.vendor[d] = preVendor[d]

\* C8 as amended: after a successful vendorCorePackages every manifest
\* subtree is in the vendor path with the contents it had; management and
\* system are no longer at the top level, and the only content there is the
\* new, empty user content directory.
C8_SubtreesMovedToVendor ==
    VendorSucceeded =>
        /\ \A d \in VendorManifest :
              /\ d # "content" => d \notin DOMAIN fs.top
              /\ d \in DOMAIN fs.vendor
              /\ d \in DOMAIN preVendor
              /\ fs.vendor[d] = preVendor[d]
        /\ "content" \in DOMAIN fs.top
        /\ fs.top["content"] = EmptyDir

C8_Witness ==
    /\ VendorSucceeded
    /\ pc = "done"
    /\ preVendor = RepoTree

\* C9: when ./content holds no protected-name file and is as it was when the
\* last build went on to compile, a build whose loop ran to its end has an
\* empty conflict list and leaves the vendored content directory as that
\* build left it.
C9_ReconcileIdempotent ==
    (cmd = "build" /\ pc = "copy" /\ i > Len(srcFiles) /\ prevDst # <<>>
        /\ Range(srcFiles) \cap ProtectedFileSet = {})
      => /\ mustRenameFiles = <<>>
         /\ ~HasConflicts(mustRenameFiles)
         /\ CurrentDst = prevDst[1]

C9_Witness ==
    /\ cmd = "build" /\ pc = "copy" /\ i > Len(srcFiles) /\ prevDst # <<>>
    /\ srcFiles = <<"foo.txt">>
    /\ FileOf(dstBefore, "foo.txt") = <<<<>>>>
    /\ CurrentDst = prevDst[1]

\* C10: a build whose toolchain did not start or exited non-zero returns an
\* error whose message contains "build step failed"; a build returns nil
\* only if the toolchain was started and exited zero.
C10_BuildStepFailed ==
    (cmd = "build" /\ pc = "done") =>
        /\ (\E b \in Calls("build") : Failed(b))
             => /\ result.isErr
                /\ Contains(result.msg, <<"build", "step", "failed">>)
        /\ result = Nil => \E b \in Calls("build") : log[b].res = "ok"

C10_Witness ==
    /\ cmd = "build" /\ pc = "done"
    /\ \E b \in Calls("build") : log[b].res = "nostart"
    /\ result.isErr

\* C11: the fork flag decides the clone source only in a dev build: a
\* non-dev local clone is from the canonical path whatever fork is, a dev
\* clone is from the canonical path when fork is empty and from the fork's
\* path under $GOPATH/src otherwise.
C11_ForkOnlyInDev ==
    cmd = "new" =>
        /\ \A c \in Calls("localClone") :
              ~dev /\ log[c].args = <<"git", "clone">> \o CanonicalLocal \o projPath
        /\ \A c \in Calls("devClone") :
              /\ dev
              /\ SubSeq(log[c].args, 1, 7) =
                    <<"git", "clone">>
                    \o (IF fork = <<>> THEN CanonicalLocal
                                       ELSE <<"$GOPATH", "src">> \o fork)

C11_Witness ==
    /\ NonDevBootstrap
    /\ fork # <<>>
    /\ \E c \in Calls("localClone") : log[c].res = "ok"

\* The call to ReadDir failed: the loop over the entries never ran.
ReadDirFailed ==
    pc = "done" /\ result = Err(<<"open content: no such file or directory">>)

\* The loop over the entries of ./content ran to its end.
LoopFinished == cmd = "build" /\ ~ReadDirFailed /\ i > Len(srcFiles)

\* C12: once the loop over the entries has run to its end, the conflict
\* list holds exactly the protected names present in ./content, each once.
C12_AllConflictsCollected ==
    LoopFinished =>
        /\ Range(mustRenameFiles) = (DOMAIN srcDir(fs)) \cap ProtectedFileSet
        /\ Len(mustRenameFiles) = Cardinality(Range(mustRenameFiles))

C12_Witness ==
    /\ LoopFinished
    /\ mustRenameFiles = <<"item.go", "types.go">>
    /\ "foo.txt" \in DOMAIN srcDir(fs)

\* C13: once the loop has run to its end every non-protected entry of
\* ./content is in the vendored content directory with the same contents;
\* and with ./content = {foo.txt, item.go} the build ends with the conflict
\* error for <<"item.go">>, foo.txt copied and the vendored item.go not
\* written (absent if the destination had none).
C13_CopiedExceptProtected ==
    (LoopFinished /\ pc # "copy") =>
        /\ \A n \in (DOMAIN srcDir(fs)) \ ProtectedFileSet :
              FileOf(CurrentDst, n) = <<srcDir(fs)[n]>>
        /\ DOMAIN srcDir(fs) = {"foo.txt", "item.go"} =>
              /\ result = conflictError
              /\ mustRenameFiles = <<"item.go">>
              /\ FileOf(CurrentDst, "foo.txt") = <<srcDir(fs)["foo.txt"]>>
              /\ FileOf(CurrentDst, "item.go") = FileOf(dstBefore, "item.go")

VendorFailed ==
    cmd = "new" /\ \E v \in Calls("vendor") : log[v].res = "fail"

\* C14: a vendorCorePackages that failed has returned the failing call's
\* error as it is and left everything where the failure found it: nothing
\* moved if the vendor directory could not be made; else the subtrees before
\* the failing one in the vendor path, that one and the later ones at the
\* project root, and no user content directory.
C14_VendorAbortsNoRollback ==
    VendorFailed =>
        /\ pc = "done"
        /\ result.isErr /\ Len(result.msg) = 1
        /\ ~fs.hasVendor => k = 1 /\ fs.vendor = EmptyDir
        /\ \A j \in DOMAIN dirs :
              IF j < k
              THEN /\ dirs[j] \notin DOMAIN fs.top
                   /\ FileOf(fs.vendor, dirs[j]) = <<preVendor[dirs[j]]>>
              ELSE /\ dirs[j] \notin DOMAIN fs.vendor
                   /\ FileOf(fs.top, dirs[j]) = <<preVendor[dirs[j]]>>

C14_Witness ==
    /\ VendorFailed
    /\ k = 2
    /\ "content" \in DOMAIN fs.vendor
    /\ "content" \notin DOMAIN fs.top
    /\ "management" \in DOMAIN fs.top

CloneCalls ==
    Calls("devClone") \cup Calls("localClone") \cup Calls("networkClone")

\* C15: in every bootstrap vendorCorePackages is called at most once, and
\* only after a clone of this invocation succeeded; without a successful
\* clone it is never called and the project directory the bootstrap made
\* holds no vendor directory.
C15_VendorOnceAfterClone ==
    cmd = "new" =>
        /\ Cardinality(Calls("vendor")) <= 1
        /\ \A v \in Calls("vendor") :
              \E c \in CloneCalls : c < v /\ log[c].res = "ok"
        /\ pc \in {"vendor", "rename", "removeGit"} =>
              \E c \in CloneCalls : log[c].res = "ok"
        /\ (~ \E c \in CloneCalls : log[c].res = "ok") =>
              /\ Calls("vendor") = {}
              /\ Calls("MkdirAll") # {} => ~fs.hasVendor

C15_Witness ==
    /\ NonDevBootstrap
    /\ pc = "done"
    /\ CloneCalls # {}
    /\ \A c \in CloneCalls : Failed(c)
    /\ Cardinality(CloneCalls) = 2
    /\ fs.exists /\ ~fs.hasVendor

GitRemovals == {r \in Calls("RemoveAll") : log[r].args = projPath \o <<".git">>}

\* C16: a non-dev bootstrap whose vendoring succeeded goes on to remove the
\* .git directory; whether or not the removal succeeds the bootstrap returns
\* nil, and after a successful removal the project has no .git directory.
C16_GitRemovalNotFatal ==
    (NonDevBootstrap /\ VendorSucceeded) =>
        \/ pc = "removeGit" /\ GitRemovals = {}
        \/ /\ pc = "done"
           /\ result = Nil
           /\ Cardinality(GitRemovals) = 1
           /\ \A r \in GitRemovals : log[r].res = "ok" => ~fs.git

C16_Witness ==
    /\ NonDevBootstrap /\ VendorSucceeded
    /\ pc = "done"
    /\ result = Nil
    /\ \E r \in GitRemovals : log[r].res = "fail"
    /\ fs.git

PathRemovals == {r \in Calls("RemoveAll") : log[r].args = projPath}

\* C17: the removal of the existing tree is the first call of a bootstrap
\* that overwrites: when it has succeeded nothing is left at the path before
\* the directory is made again and any clone starts; when it has failed the
\* bootstrap has returned an error that carries the path and the filesystem
\* error, and no directory was made, no clone and no vendoring run.
C17_DestroyBeforeCreate ==
    cmd = "new" =>
        \A r \in PathRemovals :
            /\ r = 1
            /\ (log[r].res = "ok" /\ pc = "mkdir") => fs = NoProject
            /\ log[r].res = "fail" =>
                  /\ pc = "done"
                  /\ result.isErr
                  /\ Contains(result.msg, <<"$GOPATH", "src", "myproject">>)
                  /\ Contains(result.msg, <<"permission denied">>)
                  /\ Len(log) = 1

C17_Witness ==
    /\ cmd = "new"
    /\ \E r \in PathRemovals : log[r].res = "fail"
    /\ fs.hasVendor

C19_UserContentDirLast ==
    (cmd = "new" /\ Calls("vendor") # {}) =>
        /\ VendorSucceeded =>
              "content" \in DOMAIN fs.top /\ fs.top["content"] = EmptyDir
        /\ ("content" \in DOMAIN fs.top /\ "content" \in DOMAIN fs.vendor) =>
              /\ k > Len(dirs)
              /\ \A j \in DOMAIN dirs :
                    FileOf(fs.vendor, dirs[j]) = <<RepoTree[dirs[j]]>>
              /\ fs.top["content"] = EmptyDir
              /\ VendorSucceeded

C19_Witness ==
    /\ DevBootstrap /\ VendorSucceeded
    /\ fs.top = [content |-> EmptyDir]
    /\ DOMAIN fs.vendor = VendorManifest

\* C20: no step of a build changes ./content: its entries and their
\* contents, and everything else at the project root, stay as they are.
C20_BuildLeavesUserContent ==
    [][cmd' = "build" => (fs'.exists = fs.exists /\ fs'.top = fs.top)]_vars

C20_Witness ==
    /\ cmd = "build" /\ pc = "done"
    /\ result.isErr
    /\ Calls("build") = {}
    /\ i = 2
    /\ DOMAIN srcDir(fs) = {"foo.txt", "item.go", "types.go"}

====
